---- MODULE Spec2Model ----
(***************************************************************************)
(* A model of the TFLite Jacdac service host of src/tfjacdac.ts:           *)
(* collectors, the sliding window of samples, the auto-invoke scheduler,   *)
(* the model store and the chunked model upload.                           *)
(*                                                                         *)
(* Conventions.  A Buffer of raw bytes is a sequence of 0..255.  A Buffer  *)
(* that the code only ever addresses in float32 units (Collector           *)
(* lastSample, samplesBuffer) is a sequence of cells, one cell per F32     *)
(* bytes; its byte length is F32 * Len.  A cell holds the float value      *)
(* times 2^FracBits, so that the power-of-two sampleMult stays an integer. *)
(* undefined/null fields: a number field reads 0, a string field "", a     *)
(* Buffer setting <<>>, the arena hint NoHint.                             *)
(***************************************************************************)
EXTENDS Integers, Sequences, FiniteSets, TLC

(* ------------------------------ bounds -------------------------------- *)
\* packet timestamps range over 0..MaxTime
MaxTime == 5
\* largest step of the clock between two packets
MaxDelta == 2
\* largest value written to AutoInvokeEvery / StreamSamples
MaxRegValue == 2
\* fixed-point fraction bits of a cell
FracBits == 1
\* declared model sizes are 4, 8, .. 4 * MaxSizeWords (and one oversized)
MaxSizeWords == 4
\* pipe chunks are 4, 8, .. 4 * MaxChunkWords bytes long
MaxChunkWords == 2
\* SetModel commands issued in one behaviour
MaxUploads == 2
\* runModel fibers queued at one time
MaxRuns == 2
\* binstore.totalSize(), in bytes
TotalSize == 24
\* the longest silence between two reports, in ms
MaxGap == 5

(* -------------------------- program constants ------------------------- *)
F32 == 4
entrySize == 16
HeaderSize == 8
MaxCatchUp == 5
U8 == 8
I8 == 136
U16 == 16
I16 == 144
U32 == 32
I32 == 160
NoHint == -1
ArenaMargin == 32

Min(a, b) == IF a < b THEN a ELSE b
Max(a, b) == IF a > b THEN a ELSE b

(* ---------------------------- byte buffers ---------------------------- *)
\* Buffer.slice(offset, length): offsets are 0-based, clipped to the buffer
Slice(buf, off, len) ==
    LET o == Min(Len(buf), off)
        n == Min(len, Len(buf) - o)
    IN  [i \in 1..Max(n, 0) |-> buf[o + i]]

\* Buffer.write(dstOffset, src): copies what fits
BufWrite(buf, off, src) ==
    [i \in 1..Len(buf) |->
        IF i - 1 >= off /\ i - 1 < off + Len(src) THEN src[i - off] ELSE buf[i]]

\* Buffer.shift(offset): shift left in place, zero padded
BufShift(buf, k) ==
    [i \in 1..Len(buf) |-> IF i + k <= Len(buf) THEN buf[i + k] ELSE 0]

Zeros(n) == [i \in 1..n |-> 0]

\* little-endian reads at a 0-based byte offset
GetU8(buf, off) == buf[off + 1]
GetI8(buf, off) == IF buf[off + 1] >= 128 THEN buf[off + 1] - 256 ELSE buf[off + 1]
GetU16(buf, off) == buf[off + 1] + 256 * buf[off + 2]
GetU32(buf, off) ==
    buf[off + 1] + 256 * buf[off + 2] + 65536 * buf[off + 3] + 16777216 * buf[off + 4]

PutU16(v) == <<v % 256, (v \div 256) % 256>>
PutU32(v) == <<v % 256, (v \div 256) % 256, (v \div 65536) % 256, (v \div 16777216) % 256>>
PutI8(v) == <<(v + 256) % 256>>

(* ------------------------------ numberFmt ----------------------------- *)
\* Buffer.sizeOfNumberFormat(numberFmt(stype))
sizeOfNumberFormat(stype) ==
    CASE stype = U8 -> 1
      [] stype = I8 -> 1
      [] stype = U16 -> 2
      [] stype = I16 -> 2
      [] stype = U32 -> 4
      [] stype = I32 -> 4

isSigned(stype) == stype \in {I8, I16, I32}

RECURSIVE LEValue(_, _, _)
LEValue(buf, off, n) ==
    IF n = 0 THEN 0 ELSE buf[off + 1] + 256 * LEValue(buf, off + 1, n - 1)

RECURSIVE Pow2(_)
Pow2(n) == IF n = 0 THEN 1 ELSE 2 * Pow2(n - 1)

\* one element of packet.data.toArray(numberFmt(stype)): little-endian, the top
\* byte carrying the sign of a signed format
getNumber(buf, stype, off) ==
    LET sz == sizeOfNumberFormat(stype)
        top == buf[off + sz]
        hi == IF isSigned(stype) /\ top >= 128 THEN top - 256 ELSE top
    IN  LEValue(buf, off, sz - 1) + Pow2(8 * (sz - 1)) * hi

\* packet.data.toArray(numberFmt(stype)): whole elements only
toArray(buf, stype) ==
    LET sz == sizeOfNumberFormat(stype)
    IN  [i \in 1..(Len(buf) \div sz) |-> getNumber(buf, stype, (i - 1) * sz)]

(* ------------------------------- state -------------------------------- *)
VARIABLES
    \* persistent storage
    binBufs,            \* binstore.buffers(): the allocated regions, raw bytes
    binGen,             \* how often binstore.erase() ran: tells a stale handle
    arenaSize,          \* settings["#jd-tflite-arenaSize"], NoHint when absent
    inputs,             \* settings["#jd-tflite-inputs"], <<>> when absent
    \* the interpreter
    tfLoaded,           \* tf holds a loaded model
    \* TFLiteHost fields
    autoInvokeSamples,
    outputs,
    lastError,
    collectors,
    lastSample,
    samplingInterval,
    samplesInWindow,
    sampleSize,
    streamSamples,
    samplesBuffer,
    numSamples,
    lastRunNumSamples,
    \* fibers started by control.runInBackground
    runs,               \* runModel fibers queued and not yet run
    uploads,            \* readModel fibers, in order of their SetModel
    \* environment and observation
    now,                \* timestamp of the latest packet
    sent,               \* the reports sent by the latest step, in order
    op,                 \* the latest step: its name and arguments
    frames,             \* the frames pushed by the latest step, in order
    recent,             \* the samplesInWindow latest frames pushed, oldest first
    written,            \* the latest payload written to the Inputs register
    regular             \* the reports so far arrived one interval apart: how many

storeVars == <<binBufs, binGen, arenaSize, tfLoaded>>
windowVars == <<collectors, lastSample, samplingInterval, samplesInWindow, sampleSize,
                samplesBuffer, numSamples>>
vars == <<binBufs, binGen, arenaSize, inputs, tfLoaded, autoInvokeSamples, outputs,
          lastError, collectors, lastSample, samplingInterval, samplesInWindow,
          sampleSize, streamSamples, samplesBuffer, numSamples, lastRunNumSamples,
          runs, uploads, now, sent, op,
          frames, recent, written, regular>>

ghostVars == <<recent, written, regular>>

Report(cmd, data) == [cmd |-> cmd, data |-> data]
Op(name, a, b) == [name |-> name, a |-> a, b |-> b]

(* ------------------------------ Collector ----------------------------- *)
\* the constructor's two loops over sampleShift, in units of 2^-FracBits
RECURSIVE sampleMult(_, _)
sampleMult(mult, sh) ==
    IF sh > 0 THEN sampleMult(mult \div 2, sh - 1)
    ELSE IF sh < 0 THEN sampleMult(mult * 2, sh + 1)
    ELSE mult

\* a constructor that sizes lastSample by the entry's raw byte count: sampleSize
\* bytes instead of 4 bytes per element
CollectorRawBytes(config) ==
    LET sampleSz == GetU8(config, 13)
        sampleType == GetU8(config, 14)
    IN  [serviceClass |-> GetU32(config, 8),
         requiredServiceNum |-> GetU8(config, 12),
         sampleType |-> sampleType,
         sampleMult |-> sampleMult(Pow2(FracBits), GetI8(config, 15)),
         numElts |-> sampleSz \div sizeOfNumberFormat(sampleType),
         lastSample |-> Zeros((sampleSz + F32 - 1) \div F32)]

\* new Collector(parent, config): config is one 16-byte entry
Collector(config) ==
    LET serviceClass == GetU32(config, 8)
        serviceNum == GetU8(config, 12)
        sampleSz == GetU8(config, 13)
        sampleType == GetU8(config, 14)
        sampleShift == GetI8(config, 15)
        numElts == sampleSz \div sizeOfNumberFormat(sampleType)
    IN  [serviceClass |-> serviceClass,
         requiredServiceNum |-> serviceNum,
         sampleType |-> sampleType,
         sampleMult |-> sampleMult(Pow2(FracBits), sampleShift),
         numElts |-> numElts,
         lastSample |-> Zeros((numElts * 4) \div F32)]

\* the loop of Collector.handlePacket: lastSample.setNumber(Float32LE, i << 2, ..),
\* a store past the end of the buffer is dropped
setSamples(coll, arr) ==
    [coll EXCEPT !.lastSample =
        [i \in 1..Len(coll.lastSample) |->
            IF i <= Len(arr) THEN arr[i] * coll.sampleMult ELSE coll.lastSample[i]]]

(* ------------------------------ the window ---------------------------- *)
\* the part of the host a collector event works on
Host == [samplesBuffer |-> samplesBuffer, numSamples |-> numSamples,
         streamSamples |-> streamSamples, lastSample |-> lastSample,
         lastRunNumSamples |-> lastRunNumSamples, runs |-> runs, sent |-> <<>>,
         frames |-> <<>>]

\* the loop of pushData over the collectors, off in cells
RECURSIVE writeSamples(_, _, _, _)
writeSamples(buf, colls, i, off) ==
    IF i > Len(colls) THEN buf
    ELSE writeSamples(BufWrite(buf, off, colls[i].lastSample), colls, i + 1,
                      off + Len(colls[i].lastSample))

RECURSIVE Flatten(_)
Flatten(ss) == IF ss = <<>> THEN <<>> ELSE Head(ss) \o Flatten(Tail(ss))

\* a frame: the collectors' last samples, in collector order
frameOf(colls) == Flatten([i \in 1..Len(colls) |-> colls[i].lastSample])

\* sendLastSample's payload
lastSampleSlice(buf, frameSz) ==
    Slice(buf, Len(buf) - frameSz \div F32, frameSz \div F32)

\* a pushData that overwrites the newest frame without shifting the window
pushDataNoShift(h, colls, frameSz) ==
    LET buf == writeSamples(h.samplesBuffer, colls, 1,
                            Len(h.samplesBuffer) - frameSz \div F32)
        streaming == h.streamSamples > 0
    IN  [h EXCEPT !.samplesBuffer = buf,
                  !.numSamples = h.numSamples + 1,
                  !.streamSamples = IF streaming THEN h.streamSamples - 1
                                    ELSE h.streamSamples,
                  !.frames = Append(h.frames, frameOf(colls)),
                  !.sent = IF streaming
                           THEN Append(h.sent, Report("CurrentSample",
                                                      lastSampleSlice(buf, frameSz)))
                           ELSE h.sent]

\* a pushData that streams without counting streamSamples down
pushDataNoCountdown(h, colls, frameSz) ==
    LET shifted == BufShift(h.samplesBuffer, frameSz \div F32)
        buf == writeSamples(shifted, colls, 1, Len(shifted) - frameSz \div F32)
        streaming == h.streamSamples > 0
    IN  [h EXCEPT !.samplesBuffer = buf,
                  !.numSamples = h.numSamples + 1,
                  !.frames = Append(h.frames, frameOf(colls)),
                  !.sent = IF streaming
                           THEN Append(h.sent, Report("CurrentSample",
                                                      lastSampleSlice(buf, frameSz)))
                           ELSE h.sent]

pushData(h, colls, frameSz) ==
    LET shifted == BufShift(h.samplesBuffer, frameSz \div F32)
        buf == writeSamples(shifted, colls, 1, Len(shifted) - frameSz \div F32)
        streaming == h.streamSamples > 0
    IN  [h EXCEPT !.samplesBuffer = buf,
                  !.numSamples = h.numSamples + 1,
                  !.streamSamples = IF streaming THEN h.streamSamples - 1
                                    ELSE h.streamSamples,
                  !.frames = Append(h.frames, frameOf(colls)),
                  !.sent = IF streaming
                           THEN Append(h.sent, Report("CurrentSample",
                                                      lastSampleSlice(buf, frameSz)))
                           ELSE h.sent]

RECURSIVE pushMany(_, _, _, _)
pushMany(h, colls, frameSz, n) ==
    IF n <= 0 THEN h ELSE pushMany(pushData(h, colls, frameSz), colls, frameSz, n - 1)

\* a frame count that rounds with d + d in place of d + (d >> 1)
frameCountDouble(d, interval) == (d + d) \div interval

\* Math.idiv(d + (d >> 1), this.samplingInterval), d >= 0
frameCount(d, interval) == (d + d \div 2) \div interval

\* the auto-invoke guard of _newData
mayInvoke(h, autoInvoke) ==
    /\ autoInvoke # 0
    /\ h.lastRunNumSamples >= 0
    /\ h.numSamples - h.lastRunNumSamples >= autoInvoke

\* a _newData whose catch-up loop has no cap
newDataNoCap(h, colls, frameSz, interval, autoInvoke, timestamp, isPost) ==
    LET h0 == IF h.lastSample = 0 THEN [h EXCEPT !.lastSample = timestamp] ELSE h
        d == timestamp - h0.lastSample
        n == frameCount(d, interval)
    IN  IF n = 0 THEN h0
        ELSE IF isPost
        THEN LET h1 == pushData([h0 EXCEPT !.lastSample = timestamp], colls, frameSz)
             IN  IF mayInvoke(h1, autoInvoke)
                 THEN [h1 EXCEPT !.lastRunNumSamples = -1, !.runs = h1.runs + 1]
                 ELSE h1
        ELSE pushMany(h0, colls, frameSz, n - 1)

newData(h, colls, frameSz, interval, autoInvoke, timestamp, isPost) ==
    LET h0 == IF h.lastSample = 0 THEN [h EXCEPT !.lastSample = timestamp] ELSE h
        d == timestamp - h0.lastSample
        n == frameCount(d, interval)
    IN  IF n = 0 THEN h0
        ELSE IF isPost
        THEN LET h1 == pushData([h0 EXCEPT !.lastSample = timestamp], colls, frameSz)
             IN  IF mayInvoke(h1, autoInvoke)
                 THEN [h1 EXCEPT !.lastRunNumSamples = -1, !.runs = h1.runs + 1]
                 ELSE h1
        ELSE pushMany(h0, colls, frameSz, Min(n - 1, MaxCatchUp))

\* Collector.handlePacket for a REG_READING report of collector c
collectorPacket(h, colls, c, data, frameSz, interval, autoInvoke, timestamp) ==
    LET h1 == newData(h, colls, frameSz, interval, autoInvoke, timestamp, FALSE)
        arr == toArray(data, colls[c].sampleType)
        colls1 == [colls EXCEPT ![c] = setSamples(colls[c], arr)]
        h2 == newData(h1, colls1, frameSz, interval, autoInvoke, timestamp, TRUE)
    IN  [host |-> h2, colls |-> colls1]

(* --------------------------- configureInputs -------------------------- *)
RECURSIVE makeCollectors(_, _)
makeCollectors(config, off) ==
    IF off < Len(config)
    THEN <<Collector(Slice(config, off, entrySize))>> \o makeCollectors(config, off + entrySize)
    ELSE <<>>

RECURSIVE frameSize(_, _)
frameSize(colls, i) ==
    IF i > Len(colls) THEN 0 ELSE F32 * Len(colls[i].lastSample) + frameSize(colls, i + 1)

\* the fields configureInputs assigns, from the stored configuration
configured(config) ==
    LET colls == makeCollectors(config, 8)
        frameSz == frameSize(colls, 1)
        window == GetU16(config, 2)
    IN  [samplingInterval |-> GetU16(config, 0),
         samplesInWindow |-> window,
         collectors |-> colls,
         sampleSize |-> frameSz,
         samplesBuffer |-> Zeros((window * frameSz) \div F32),
         numSamples |-> 0,
         lastRunNumSamples |-> 0]


(* ----------------------------- model store ---------------------------- *)
\* bufs[0].getNumber(NumberFormat.Int32LE, 0) == -1: the erased flash pattern
headerErased(buf) == Len(buf) >= 4 /\ \A i \in 1..4 : buf[i] = 255

\* get modelBuffer is not null
modelPresent(bufs) == Len(bufs) > 0 /\ ~headerErased(bufs[1])

modelBuffer(bufs) == bufs[1]

\* get modelSize
modelSize(bufs) == IF modelPresent(bufs) THEN Len(modelBuffer(bufs)) ELSE 0

\* binstore.addBuffer(sz): a fresh region of erased flash
addBuffer(bufs, sz) == Append(bufs, [i \in 1..sz |-> 255])

\* tf.arenaBytes() after a successful tf.loadModel
arenaBytes(model) == 2 * Len(model)

\* loadModel: tfOk tells whether tf.loadModel accepts the stored bytes
loadModel(bufs, hint, loaded, tfOk) ==
    IF ~modelPresent(bufs)
    THEN [lastError |-> "no model", tfLoaded |-> loaded, arenaSize |-> hint]
    ELSE IF tfOk
    THEN [lastError |-> "", tfLoaded |-> TRUE,
          arenaSize |-> IF hint = NoHint
                        THEN arenaBytes(modelBuffer(bufs)) + ArenaMargin ELSE hint]
    ELSE [lastError |-> "load failed", tfLoaded |-> FALSE, arenaSize |-> hint]

\* binstore.write(flash, off, src) through the handle a fiber got from addBuffer at
\* generation gen.  A handle from before the latest erase is stale: the write is
\* either dropped or lands in the region now allocated at the same place.  A write
\* reaching past the end of the region is either refused or cut at the end.
storeWrite(bufs, gen, off, src, hw) ==
    IF Len(src) = 0 \/ Len(bufs) = 0 THEN bufs
    ELSE IF gen # binGen /\ hw.stale = "drop" THEN bufs
    ELSE IF off + Len(src) > Len(bufs[1]) /\ hw.oob = "refuse" THEN bufs
    ELSE [bufs EXCEPT ![1] = BufWrite(bufs[1], off, src)]

Hardware == [stale : {"drop", "alias"}, oob : {"refuse", "clip"}]

\* the bytes a client streams for its k-th SetModel: never the erased pattern
streamBytes(k, off, n) == [i \in 1..n |-> 16 * k + off + i - 1]

\* the declared sizes a client tries: the last one exceeds the capacity
ModelSizes == {4 * w : w \in 1..MaxSizeWords} \cup {TotalSize}
ChunkSizes == {4 * w : w \in 1..MaxChunkWords}

\* a capacity check that forgets the 8 header bytes
tooBigNoHeader(sz) == sz > TotalSize

\* the capacity check of readModel
tooBig(sz) == sz > TotalSize - HeaderSize


(* --------------------------- configurations --------------------------- *)
\* one 16-byte collector entry of the configuration register, device id 0
packEntry(serviceClass, serviceNum, sampleSz, sampleType, sampleShift) ==
    Zeros(8) \o PutU32(serviceClass) \o <<serviceNum, sampleSz, sampleType>>
        \o PutI8(sampleShift)

\* the configuration register's payload
packConfig(interval, window, entries) ==
    PutU16(interval) \o PutU16(window) \o Zeros(4) \o Flatten(entries)

\* the configurations a client writes: one int16 element every 1 ms in a window
\* of 2 frames; an int32 halved and an int16 every 2 ms in a window of 1; two
\* uint8 doubled every 2 ms in a window of 1
ConfigBlobs ==
    { packConfig(1, 2, <<packEntry(1, 0, 2, I16, 0)>>),
      packConfig(2, 1, <<packEntry(3, 0, 4, I32, 1), packEntry(1, 0, 2, I16, 0)>>),
      packConfig(2, 1, <<packEntry(2, 1, 2, U8, -1)>>) }

\* the payloads of the collectors' REG_READING reports
Payloads == { <<254, 255>>, <<4, 0, 0, 0>> }

(* -------------------------------- runModel ---------------------------- *)
RECURSIVE Sum(_)
Sum(seq) == IF seq = <<>> THEN 0 ELSE Head(seq) + Sum(Tail(seq))

\* packArray(tf.invokeModelF([samplesBuffer])[0], Float32LE): some function of
\* the window
invokeModelF(buf) == <<Sum(buf)>>

\* a runModel without the early return on a set lastError
runModelNoSticky(invokeOk) ==
    LET ok == invokeOk /\ tfLoaded
        out == IF ok THEN invokeModelF(samplesBuffer) ELSE outputs
    IN  [lastError |-> IF ok THEN lastError ELSE "invoke failed",
         outputs |-> out,
         lastRunNumSamples |-> numSamples,
         sent |-> <<Report("Outputs", out)>>,
         invoked |-> TRUE, ok |-> ok]

\* runModel: invokeOk tells whether tf.invokeModelF returns (it throws a string
\* otherwise, and always does without a loaded model); invoked tells whether
\* tf.invokeModelF was called, ok whether it returned
runModel(invokeOk) ==
    IF lastError # "" THEN [lastError |-> lastError, outputs |-> outputs,
                            lastRunNumSamples |-> lastRunNumSamples, sent |-> <<>>,
                            invoked |-> FALSE, ok |-> FALSE]
    ELSE LET ok == invokeOk /\ tfLoaded
             out == IF ok THEN invokeModelF(samplesBuffer) ELSE outputs
         IN  [lastError |-> IF ok THEN lastError ELSE "invoke failed",
              outputs |-> out,
              lastRunNumSamples |-> numSamples,
              sent |-> <<Report("Outputs", out)>>,
              invoked |-> TRUE, ok |-> ok]

(* -------------------------------- actions ----------------------------- *)
hostVars == <<autoInvokeSamples, outputs, lastError, streamSamples, lastRunNumSamples>>

\* handlePacket, TFLiteCmd.SetModel: control.runInBackground(readModel)
SetModel(sz) ==
    /\ Len(uploads) < MaxUploads
    /\ uploads' = Append(uploads, [sz |-> sz, off |-> 0, headBuffer |-> Zeros(HeaderSize),
                                   pc |-> "sched", gen |-> 0])
    /\ sent' = <<>>
    /\ frames' = <<>>
    /\ op' = Op("SetModel", sz, 0)
    /\ UNCHANGED <<storeVars, windowVars, hostVars, inputs, runs, now, ghostVars>>

\* readModel up to its first pipe.read(); the fibers start in the order the
\* commands queued them
readModelStart(i) ==
    /\ i \in 1..Len(uploads)
    /\ uploads[i].pc = "sched"
    /\ \A j \in 1..(i - 1) : uploads[j].pc # "sched"
    /\ op' = Op("readModel", i, uploads[i].sz)
    /\ IF tooBig(uploads[i].sz)
       THEN /\ uploads' = [uploads EXCEPT ![i].pc = "rejected"]
            /\ sent' = <<>>
            /\ UNCHANGED storeVars
       ELSE /\ tfLoaded' = FALSE
            /\ binBufs' = addBuffer(<<>>, uploads[i].sz)
            /\ binGen' = binGen + 1
            /\ arenaSize' = NoHint
            /\ uploads' = [uploads EXCEPT ![i].pc = "read", ![i].gen = binGen + 1]
            /\ sent' = <<Report("SetModel", i)>>
    /\ frames' = <<>>
    /\ UNCHANGED <<windowVars, hostVars, inputs, runs, now, ghostVars>>

\* one turn of readModel's loop: pipe.read() returns a chunk of n bytes
pipeData(i, n, hw, tfOk) ==
    /\ i \in 1..Len(uploads)
    /\ uploads[i].pc = "read"
    /\ LET u == uploads[i]
           buf == streamBytes(i, u.off, n)
           head == IF u.off = 0 THEN BufWrite(u.headBuffer, 0, buf) ELSE u.headBuffer
           b1 == IF u.off = 0
                 THEN storeWrite(binBufs, u.gen, HeaderSize, Slice(buf, HeaderSize, n), hw)
                 ELSE storeWrite(binBufs, u.gen, u.off, buf, hw)
           off == u.off + n
           b2 == IF off >= u.sz THEN storeWrite(b1, u.gen, 0, head, hw) ELSE b1
           ld == loadModel(b2, arenaSize, tfLoaded, tfOk)
       IN  /\ binBufs' = b2
           /\ uploads' = [uploads EXCEPT ![i].off = off, ![i].headBuffer = head,
                              ![i].pc = IF off >= u.sz THEN "done"
                                        ELSE IF off % 8 # 0 THEN "thrown" ELSE "read"]
           /\ IF off >= u.sz
              THEN /\ lastError' = ld.lastError
                   /\ tfLoaded' = ld.tfLoaded
                   /\ arenaSize' = ld.arenaSize
              ELSE UNCHANGED <<lastError, tfLoaded, arenaSize>>
    /\ sent' = <<>>
    /\ frames' = <<>>
    /\ op' = Op("pipeData", i, n)
    /\ UNCHANGED <<binGen, windowVars, autoInvokeSamples, outputs, streamSamples,
                   lastRunNumSamples, inputs, runs, now, ghostVars>>

\* pipe.read() returns null: the remote end closed the stream
pipeClose(i) ==
    /\ i \in 1..Len(uploads)
    /\ uploads[i].pc = "read"
    /\ uploads' = [uploads EXCEPT ![i].pc = "closed"]
    /\ sent' = <<>>
    /\ frames' = <<>>
    /\ op' = Op("pipeClose", i, 0)
    /\ UNCHANGED <<storeVars, windowVars, hostVars, inputs, runs, now, ghostVars>>

\* a queued runModel fiber runs
runModelFiber(invokeOk) ==
    /\ runs > 0
    /\ runs' = runs - 1
    /\ LET r == runModel(invokeOk)
       IN  /\ lastError' = r.lastError
           /\ outputs' = r.outputs
           /\ lastRunNumSamples' = r.lastRunNumSamples
           /\ sent' = r.sent
           /\ op' = Op("runModel", r.invoked, r.ok)
    /\ frames' = <<>>
    /\ UNCHANGED <<storeVars, windowVars, autoInvokeSamples, streamSamples, inputs,
                   uploads, now, ghostVars>>

\* the n latest of a sequence of frames
LastFrames(fs, n) == [i \in 1..Min(n, Len(fs)) |-> fs[Len(fs) - Min(n, Len(fs)) + i]]

\* Collector.handlePacket: collector c gets a REG_READING report dt after the
\* latest packet, at a timestamp of at most horizon
collectorReportBy(c, data, dt, horizon) ==
    /\ c \in 1..Len(collectors)
    /\ now + dt <= horizon
    /\ LET r == collectorPacket(Host, collectors, c, data, sampleSize, samplingInterval,
                                autoInvokeSamples, now + dt)
       IN  /\ r.host.runs <= MaxRuns
           /\ collectors' = r.colls
           /\ samplesBuffer' = r.host.samplesBuffer
           /\ numSamples' = r.host.numSamples
           /\ streamSamples' = r.host.streamSamples
           /\ lastSample' = r.host.lastSample
           /\ lastRunNumSamples' = r.host.lastRunNumSamples
           /\ runs' = r.host.runs
           /\ sent' = r.host.sent
           /\ frames' = r.host.frames
           /\ recent' = LastFrames(recent \o r.host.frames, samplesInWindow)
    /\ now' = now + dt
    /\ op' = Op("report", c, dt)
    /\ regular' = IF regular = 0 THEN (IF now + dt > 0 THEN 1 ELSE -1)
                  ELSE IF regular > 0 /\ dt = samplingInterval THEN regular + 1
                  ELSE -1
    /\ UNCHANGED <<storeVars, samplingInterval, samplesInWindow, sampleSize,
                   autoInvokeSamples, outputs, lastError, inputs, uploads, written>>

collectorReport(c, data, dt) == collectorReportBy(c, data, dt, MaxTime)

\* a comparison that never finds the configuration unchanged
sameInputsNever(data, stored) == FALSE

\* a comparison that only looks whether a configuration is stored
sameInputsStored(data, stored) == stored # <<>>

\* this.inputSettings && packet.data.equals(this.inputSettings)
sameInputs(data, stored) == stored # <<>> /\ data = stored

\* handlePacket, TFLiteReg.Inputs | CMD_SET_REG
writeInputs(data) ==
    /\ op' = Op("writeInputs", data, inputs)
    /\ sent' = <<>>
    /\ frames' = <<>>
    /\ written' = data
    /\ IF sameInputs(data, inputs)
       THEN UNCHANGED <<inputs, windowVars, lastRunNumSamples, regular, recent>>
       ELSE LET cfg == configured(data)
            IN  /\ inputs' = data
                /\ samplingInterval' = cfg.samplingInterval
                /\ samplesInWindow' = cfg.samplesInWindow
                /\ collectors' = cfg.collectors
                /\ sampleSize' = cfg.sampleSize
                /\ samplesBuffer' = cfg.samplesBuffer
                /\ numSamples' = cfg.numSamples
                /\ lastRunNumSamples' = cfg.lastRunNumSamples
                /\ regular' = IF regular = 0 THEN 0 ELSE -1
                /\ recent' = [i \in 1..cfg.samplesInWindow |->
                                 Zeros(cfg.sampleSize \div F32)]
                /\ UNCHANGED lastSample
    /\ UNCHANGED <<storeVars, autoInvokeSamples, outputs, lastError, streamSamples,
                   runs, uploads, now>>

\* handlePacket, a register read: the reply
regValue(reg) ==
    CASE reg = "Inputs" -> inputs
      [] reg = "ModelSize" -> modelSize(binBufs)
      [] reg = "NumSamples" -> numSamples
      [] reg = "SampleSize" -> sampleSize
      [] reg = "Outputs" -> outputs
      [] reg = "StreamSamples" -> streamSamples
      [] reg = "AutoInvokeEvery" -> autoInvokeSamples
      [] reg = "CurrentSample" -> lastSampleSlice(samplesBuffer, sampleSize)
      [] reg = "LastError" -> lastError

Registers == {"Inputs", "ModelSize", "NumSamples", "SampleSize", "Outputs",
              "StreamSamples", "AutoInvokeEvery", "CurrentSample", "LastError"}

readReg(reg) ==
    /\ sent' = <<Report(reg, regValue(reg))>>
    /\ frames' = <<>>
    /\ op' = Op("readReg", reg, 0)
    /\ UNCHANGED <<storeVars, windowVars, hostVars, inputs, runs, uploads, now, ghostVars>>

\* handlePacket, handleRegInt of a written StreamSamples
writeStreamSamples(v) ==
    /\ streamSamples' = v
    /\ sent' = <<>>
    /\ frames' = <<>>
    /\ op' = Op("writeStreamSamples", v, 0)
    /\ UNCHANGED <<storeVars, windowVars, autoInvokeSamples, outputs, lastError,
                   lastRunNumSamples, inputs, runs, uploads, now, ghostVars>>

\* handlePacket, handleRegInt of a written AutoInvokeEvery
writeAutoInvokeEvery(v) ==
    /\ autoInvokeSamples' = v
    /\ sent' = <<>>
    /\ frames' = <<>>
    /\ op' = Op("writeAutoInvokeEvery", v, 0)
    /\ UNCHANGED <<storeVars, windowVars, streamSamples, outputs, lastError,
                   lastRunNumSamples, inputs, runs, uploads, now, ghostVars>>

(* --------------------------------- start ------------------------------ *)
\* the state start() leaves: the fields' initialisers, then loadModel and
\* configureInputs over what the flash holds
Start(bufs, hint, config, tfOk) ==
    LET ld == loadModel(bufs, hint, FALSE, tfOk)
        cfg == IF config = <<>>
               THEN [samplingInterval |-> 0, samplesInWindow |-> 0, collectors |-> <<>>,
                     sampleSize |-> 0, samplesBuffer |-> <<>>, numSamples |-> 0,
                     lastRunNumSamples |-> 0]
               ELSE configured(config)
    IN  /\ binBufs = bufs
        /\ binGen = 0
        /\ arenaSize = ld.arenaSize
        /\ inputs = config
        /\ tfLoaded = ld.tfLoaded
        /\ autoInvokeSamples = 0
        /\ outputs = <<>>
        /\ lastError = ld.lastError
        /\ collectors = cfg.collectors
        /\ lastSample = 0
        /\ samplingInterval = cfg.samplingInterval
        /\ samplesInWindow = cfg.samplesInWindow
        /\ sampleSize = cfg.sampleSize
        /\ streamSamples = 0
        /\ samplesBuffer = cfg.samplesBuffer
        /\ numSamples = cfg.numSamples
        /\ lastRunNumSamples = cfg.lastRunNumSamples
        /\ runs = 0
        /\ uploads = <<>>
        /\ now = 0
        /\ sent = <<>>
        /\ op = Op("start", 0, 0)
        /\ frames = <<>>
        /\ recent = [i \in 1..cfg.samplesInWindow |-> Zeros(cfg.sampleSize \div F32)]
        /\ written = <<>>
        /\ regular = 0

\* a model a previous session stored: 8 bytes, header committed
storedModel == <<streamBytes(0, 0, HeaderSize)>>

\* the collectors, the window and the registers, over a service that starts
\* without a model, configured or not
Init ==
    \E config \in {<<>>} \cup ConfigBlobs : Start(<<>>, NoHint, config, TRUE)

Next ==
    \/ \E c \in 1..2, data \in Payloads, dt \in 0..MaxDelta : collectorReport(c, data, dt)
    \/ \E data \in ConfigBlobs : writeInputs(data)
    \/ readReg("Inputs")
    \/ \E v \in 0..MaxRegValue : writeStreamSamples(v)

Spec == Init /\ [][Next]_vars

\* the model store and the uploads, over a service that starts unconfigured
InitStore ==
    \E bufs \in {<<>>, storedModel}, tfOk \in BOOLEAN, hinted \in BOOLEAN :
        Start(bufs, IF hinted /\ bufs # <<>> THEN 2 * HeaderSize + ArenaMargin ELSE NoHint,
              <<>>, tfOk)

NextStore ==
    \/ \E sz \in ModelSizes : SetModel(sz)
    \/ \E i \in 1..MaxUploads : readModelStart(i)
    \/ \E i \in 1..MaxUploads, n \in ChunkSizes, hw \in Hardware, tfOk \in BOOLEAN :
          pipeData(i, n, hw, tfOk)
    \/ \E i \in 1..MaxUploads : pipeClose(i)
    \/ \E reg \in {"ModelSize", "LastError"} : readReg(reg)

SpecStore == InitStore /\ [][NextStore]_vars

(* ======================= the window and the registers ================= *)
\* what the configuration payload says, entry by entry
entryCount(config) == (Len(config) - 8) \div entrySize
entrySampleSize(config, k) == config[8 + entrySize * (k - 1) + 14]
entrySampleType(config, k) == config[8 + entrySize * (k - 1) + 15]
\* the width in bytes a sample type's code names
typeWidth(stype) == (stype % 128) \div 8

RECURSIVE rawBytes(_, _)
rawBytes(config, k) ==
    IF k = 0 THEN 0 ELSE entrySampleSize(config, k) + rawBytes(config, k - 1)

RECURSIVE floatBytes(_, _)
floatBytes(config, k) ==
    IF k = 0 THEN 0
    ELSE 4 * (entrySampleSize(config, k) \div typeWidth(entrySampleType(config, k)))
         + floatBytes(config, k - 1)

\* sum of sampleSizeBytes_i over the entries
rawFrameBytes(config) == rawBytes(config, entryCount(config))
\* sum of 4 bytes per element of each entry
floatFrameBytes(config) == floatBytes(config, entryCount(config))

byteLength(cells) == F32 * Len(cells)

\* C4 as stated: in every state of a configured service the window buffer is
\* samplesInWindow x (sum of the entries' sampleSizeBytes) bytes long and the
\* SampleSize register reads that sum.
C4_WindowLengthRaw ==
    inputs # <<>> =>
        /\ byteLength(samplesBuffer) = GetU16(inputs, 2) * rawFrameBytes(inputs)
        /\ regValue("SampleSize") = rawFrameBytes(inputs)

\* C4 amended: in every state of a configured service (so across every push) the
\* window buffer is samplesInWindow x (sum over the entries of 4 bytes per
\* element, an entry having sampleSizeBytes / width-of-its-type elements) bytes
\* long, and the SampleSize register reads that sum.
C4_WindowLength ==
    inputs # <<>> =>
        /\ byteLength(samplesBuffer) = GetU16(inputs, 2) * floatFrameBytes(inputs)
        /\ regValue("SampleSize") = floatFrameBytes(inputs)

C4_Witness ==
    /\ inputs # <<>>
    /\ numSamples >= 2
    /\ entryCount(inputs) = 2
    /\ rawFrameBytes(inputs) # floatFrameBytes(inputs)

\* C5: the window buffer is the samplesInWindow latest frames pushed since the
\* configuration, oldest first, zero frames standing in for the missing ones; a
\* frame is the collectors' last samples in collector order; every frame pushed
\* adds exactly 1 to the sample counter.
C5_SlidingWindow ==
    /\ [](samplesBuffer = Flatten(recent))
    /\ [][op'.name = "report" => numSamples' = numSamples + Len(frames')]_vars

C5_Witness ==
    /\ samplesInWindow = 2
    /\ numSamples >= 3
    /\ recent[1] # recent[2]
    /\ \A i \in 1..2 : recent[i] # Zeros(Len(recent[i]))

\* C8: a collector event that pushes frames sends the first streamSamples of
\* them (all, if fewer) as CurrentSample reports, each carrying the frame just
\* pushed, and takes that many off the counter; the counter never goes below 0
\* and only a write of the register sets it otherwise.
C8_StreamSamples ==
    /\ [](streamSamples >= 0)
    /\ [][op'.name = "report" =>
            LET k == Min(streamSamples, Len(frames'))
            IN  /\ sent' = [j \in 1..k |-> Report("CurrentSample", frames'[j])]
                /\ streamSamples' = streamSamples - k]_vars
    /\ [][op'.name \notin {"report", "writeStreamSamples"} =>
            /\ streamSamples' = streamSamples
            /\ \A j \in 1..Len(sent') :
                   sent'[j].cmd = "CurrentSample" => op'.name = "readReg"]_vars

\* StreamSamples was 2, three frames were pushed: two were streamed
C8_Witness ==
    /\ op.name = "report"
    /\ Len(frames) = 3
    /\ Len(sent) = 2
    /\ streamSamples = 0

\* C9 as stated: a fresh service with one collector that has received k reports
\* one sampling interval apart reads NumSamples = k.
C9_SamplesPerReportRaw ==
    (regular >= 1 /\ Len(collectors) = 1) => regValue("NumSamples") = regular

\* C9 amended: it reads k - 1, the first report only starting the clock.
C9_SamplesPerReport ==
    (regular >= 1 /\ Len(collectors) = 1) => regValue("NumSamples") = regular - 1

\* three reports 2 ms apart
C9_Witness ==
    /\ regular = 3
    /\ Len(collectors) = 1
    /\ samplingInterval = 2


(* ============================= the scheduler ========================== *)
\* the service with a stored model, loaded or refused at start: collector
\* events, configuration and threshold writes, and the runs they schedule
InitSched ==
    \E config \in {<<>>} \cup ConfigBlobs, tfOk \in BOOLEAN :
        Start(storedModel, NoHint, config, tfOk)

NextSched ==
    \/ \E c \in 1..2, dt \in 0..MaxDelta : collectorReport(c, <<4, 0, 0, 0>>, dt)
    \/ \E data \in ConfigBlobs : writeInputs(data)
    \/ \E v \in 0..MaxRegValue : writeAutoInvokeEvery(v)
    \/ \E ok \in BOOLEAN : runModelFiber(ok)

SpecSched == InitSched /\ [][NextSched]_vars

\* C3: a step queues a run only when the threshold is > 0, the samples since the
\* previous run's start mark have reached it and no run is queued or running;
\* so at most one run is queued or running at any time, and none is queued
\* while the threshold is 0.
C3_AutoInvokeGuard ==
    /\ [][runs' > runs =>
            /\ autoInvokeSamples > 0
            /\ numSamples' - lastRunNumSamples >= autoInvokeSamples
            /\ runs = 0]_vars
    /\ [](runs <= 1)

(* ====================== the configuration register =================== *)
\* the whole service over a stored, loaded model: writes and reads of the Inputs
\* register among collector events, runs, and SetModel commands of a size that
\* fits and of one that does not.  The configurations written are those with a
\* window of one frame.
WindowOfOne == {data \in ConfigBlobs : GetU16(data, 2) = 1}

InitInputs ==
    \E config \in {<<>>} \cup WindowOfOne : Start(storedModel, NoHint, config, TRUE)

NextInputs ==
    \/ \E data \in WindowOfOne : writeInputs(data)
    \/ readReg("Inputs")
    \/ collectorReport(1, <<4, 0, 0, 0>>, MaxDelta)
    \/ writeAutoInvokeEvery(1)
    \/ runModelFiber(TRUE)
    \/ \E sz \in {HeaderSize, TotalSize} : SetModel(sz)
    \/ \E i \in 1..MaxUploads : readModelStart(i)
    \/ \E i \in 1..MaxUploads :
          pipeData(i, HeaderSize, [stale |-> "alias", oob |-> "clip"], TRUE)
    \/ \E i \in 1..MaxUploads : pipeClose(i)

SpecInputs == InitInputs /\ [][NextInputs]_vars

\* C6: a write of the Inputs register whose payload equals the stored
\* configuration changes neither the sample counter, nor the run start mark, nor
\* the window buffer, nor the collectors (their last samples included).
C6_IdenticalWriteNoOp ==
    [][(op'.name = "writeInputs" /\ op'.a = op'.b) =>
          UNCHANGED <<numSamples, lastRunNumSamples, samplesBuffer, collectors,
                      samplingInterval, samplesInWindow, sampleSize, inputs>>]_vars

\* the identical write came after frames were pushed and a run was made
C6_Witness ==
    /\ op.name = "writeInputs"
    /\ op.a = op.b
    /\ numSamples > 0
    /\ lastRunNumSamples > 0
    /\ samplesBuffer # Zeros(Len(samplesBuffer))

\* C7: a read of the Inputs register replies with the payload of the latest
\* write of that register, whatever happened in between.
C7_InputsRoundTrip ==
    (op.name = "readReg" /\ op.a = "Inputs" /\ written # <<>>) =>
        sent = <<Report("Inputs", written)>>

\* the read came after a write, pushed frames and a completed upload
C7_Witness ==
    /\ op.name = "readReg"
    /\ written # <<>>
    /\ numSamples > 0
    /\ \E i \in 1..Len(uploads) : uploads[i].pc = "done"
    /\ sent = <<Report("Inputs", written)>>

\* the upload that allocated the region now in the store
owner(i) == uploads[i].pc \in {"read", "closed", "thrown", "done"} /\ uploads[i].gen = binGen

\* the first 8 bytes of the region are still erased
headerUncommitted ==
    Len(binBufs) > 0 /\ \A k \in 1..Min(HeaderSize, Len(binBufs[1])) : binBufs[1][k] = 255

\* C1: while the upload that allocated the region has received fewer bytes than
\* it declared, the region's first 8 bytes are uncommitted and the store reads
\* as holding no model: ModelSize reads 0.
C1_HeaderLast ==
    \A i \in 1..Len(uploads) :
        (owner(i) /\ uploads[i].off < uploads[i].sz) =>
            /\ headerUncommitted
            /\ ~modelPresent(binBufs)
            /\ regValue("ModelSize") = 0

\* C2: once the stream of the latest accepted SetModel has closed short of the
\* declared size, ModelSize reads 0 and LastError reads "no model".
C2_AbortedUpload ==
    \A i \in 1..Len(uploads) :
        (i = Len(uploads) /\ uploads[i].pc = "closed" /\ uploads[i].off < uploads[i].sz) =>
            /\ regValue("ModelSize") = 0
            /\ regValue("LastError") = "no model"

\* C10: readModel of a declared size above the capacity less 8 changes nothing
\* in the store, the settings, the interpreter or the host, allocates no region
\* and opens no stream (it sends no reply naming one).
C10_RejectionNoSideEffects ==
    [][(op'.name = "readModel" /\ op'.b > TotalSize - 8) =>
          /\ UNCHANGED <<binBufs, binGen, arenaSize, tfLoaded, lastError, inputs,
                         outputs>>
          /\ sent' = <<>>
          /\ uploads'[op'.a].pc = "rejected"]_vars

\* the rejection met a loaded model and its arena hint
C10_Witness ==
    /\ op.name = "readModel"
    /\ op.b > TotalSize - 8
    /\ modelPresent(binBufs)
    /\ tfLoaded
    /\ lastError = ""
    /\ arenaSize # NoHint

(* ============================ upload protocol ========================= *)
\* the InPipe that readModel created for upload i is still open: the host closes
\* it only by the pipe.close() after the loop, the remote end by ending the stream
pipeOpen(i) == uploads[i].pc \in {"read", "thrown"}

\* C11: an upload whose offset after a chunk is below the declared size and not
\* a multiple of 8 is aborted: its stream is closed, it has written no header
\* (the region it allocated reads as holding no model), and it takes no further
\* chunk.
C11_AlignmentAbort ==
    \A i \in 1..Len(uploads) :
        uploads[i].pc = "thrown" =>
            /\ ~pipeOpen(i)
            /\ owner(i) => ~modelPresent(binBufs)
            /\ ~ENABLED (\E n \in ChunkSizes, hw \in Hardware, tfOk \in BOOLEAN :
                            pipeData(i, n, hw, tfOk))

(* ========================== the model's life ========================== *)
\* the service over a stored model, loaded or refused at start, sampling every
\* millisecond: reports one sampling interval apart, threshold writes, runs that
\* succeed or fail, and uploads of a model that loads or is refused
EveryTick == {data \in ConfigBlobs : GetU16(data, 0) = 1}

InitModel ==
    \E config \in EveryTick, tfOk \in BOOLEAN : Start(storedModel, NoHint, config, tfOk)

NextModel ==
    \/ collectorReport(1, <<4, 0, 0, 0>>, 1)
    \/ \E v \in 0..1 : writeAutoInvokeEvery(v)
    \/ \E ok \in BOOLEAN : runModelFiber(ok)
    \/ SetModel(HeaderSize)
    \/ \E i \in 1..MaxUploads : readModelStart(i)
    \/ \E i \in 1..MaxUploads, tfOk \in BOOLEAN :
          pipeData(i, HeaderSize, [stale |-> "alias", oob |-> "clip"], tfOk)
    \/ \E i \in 1..MaxUploads : pipeClose(i)

SpecModel == InitModel /\ [][NextModel]_vars

\* the step is the end of an upload: readModel calls loadModel
loads == op'.name = "pipeData" /\ uploads'[op'.a].pc = "done"

C13_Recovery ==
    (lastError = "" /\ tfLoaded /\ runs = 0) => lastRunNumSamples >= 0

\* C14: a run calls the interpreter only while a model is loaded and no error
\* is set.
C14_OnlyReadyInvokes ==
    [][(op'.name = "runModel" /\ op'.a) => (tfLoaded /\ lastError = "")]_vars

\* C18: a run sends an Outputs report only when the invocation succeeded, and
\* then the freshly packed result; a failing run sets lastError, leaves outputs
\* as they were and sends nothing.
C18_RunOutcome ==
    [][op'.name = "runModel" =>
          /\ sent' # <<>> =>
                /\ op'.a /\ op'.b
                /\ sent' = <<Report("Outputs", invokeModelF(samplesBuffer))>>
          /\ (op'.a /\ ~op'.b) =>
                /\ lastError' # ""
                /\ outputs' = outputs
                /\ sent' = <<>>]_vars

(* ============================ background work ========================= *)
\* upload i is suspended in pipe.read(), waiting for its next chunk
suspended(i) == uploads[i].pc = "read"

\* C15: at most one upload is in progress at any time, and while an upload is
\* suspended waiting for a chunk no inference run and no other readModel starts.
C15_NonOverlap ==
    /\ [](Cardinality({i \in 1..Len(uploads) : suspended(i)}) <= 1)
    /\ [][(\E i \in 1..Len(uploads) : suspended(i)) =>
             op'.name \notin {"runModel", "readModel"}]_vars

(* ============================ the sampling clock ====================== *)
\* the time since the last tick that a report at timestamp sees
elapsed(timestamp) == IF lastSample = 0 THEN 0 ELSE timestamp - lastSample

\* round-half-up of d / interval: floor((d + interval / 2) / interval)
roundHalfUp(d, interval) == (2 * d + interval) \div (2 * interval)

\* C16: a collector event computes nFrames = round-half-up(d / I) for the time
\* d since the last tick, so it pushes min(nFrames - 1, 5) + 1 frames when
\* nFrames >= 1, and it pushes nothing and changes no state exactly when d < I / 2.
C16_FrameCountRounding ==
    [][op'.name = "report" =>
          LET d == elapsed(now')
              n == roundHalfUp(d, samplingInterval)
          IN  /\ Len(frames') = IF n = 0 THEN 0 ELSE Min(n - 1, MaxCatchUp) + 1
              /\ (frames' = <<>> /\ numSamples' = numSamples) <=> 2 * d < samplingInterval]_vars

\* the collectors after silences long enough for the catch-up cap: one collector
\* sampled every millisecond, or two every 2 ms
TickBlobs == {data \in ConfigBlobs : GetU16(data, 0) = 1 \/ Len(data) > 8 + entrySize}

InitTick == \E config \in TickBlobs : Start(<<>>, NoHint, config, TRUE)

NextTick ==
    \E c \in 1..2, data \in Payloads, dt \in {0, 1, MaxGap} :
        collectorReportBy(c, data, dt, MaxTime + MaxGap)

SpecTick == InitTick /\ [][NextTick]_vars

\* C17: a collector event that computes nFrames >= 1 pushes min(nFrames - 1, 5)
\* frames of the collectors' samples as they were before the report, then sets
\* lastSample to the timestamp and pushes one frame of the samples as updated:
\* at most 6 frames.  An event that computes 0, as one less than half an
\* interval after the last tick does, pushes nothing and leaves the tick.
C17_TwoPhaseTick ==
    [][op'.name = "report" =>
          LET d == elapsed(now')
              n == frameCount(d, samplingInterval)
              k == Min(n - 1, MaxCatchUp)
          IN  /\ n >= 1 =>
                    /\ frames' = [j \in 1..k |-> frameOf(collectors)]
                                     \o <<frameOf(collectors')>>
                    /\ lastSample' = now'
                    /\ numSamples' = numSamples + k + 1
              /\ Len(frames') <= MaxCatchUp + 1
              /\ n = 0 =>
                    /\ frames' = <<>>
                    /\ numSamples' = numSamples
                    /\ lastSample # 0 => lastSample' = lastSample
              /\ (lastSample # 0 /\ 2 * d < samplingInterval) => frames' = <<>>]_vars

\* a report after a long silence pushed 5 stale frames and a fresh one
C17_Witness ==
    /\ op.name = "report"
    /\ Len(frames) = MaxCatchUp + 1
    /\ frames[1] # frames[MaxCatchUp + 1]
    /\ frames[1] = frames[MaxCatchUp]
    /\ lastSample = now

(* ========================== overlapping uploads ======================= *)
\* upload i was superseded: a later readModel erased the store and allocated
\* its own region
superseded(i) == uploads[i].pc \in {"read", "closed", "thrown", "done"} /\ uploads[i].gen # binGen

\* C19: a chunk delivered to a superseded upload writes nothing into the region
\* now allocated, and while the upload that allocated the region has an earlier
\* upload behind it and has not received its declared bytes, the store reads as
\* holding no model.
C19_OverlappingUploads ==
    /\ [][(op'.name = "pipeData" /\ superseded(op'.a)) => binBufs' = binBufs]_vars
    /\ [](\A i \in 1..Len(uploads) :
            (owner(i) /\ uploads[i].off < uploads[i].sz
                /\ \E j \in 1..(i - 1) : superseded(j)) => ~modelPresent(binBufs))

\* C20: when an upload completes having received exactly its declared size S,
\* the region holds the S streamed bytes in order, and the load that follows
\* finds that model (it does not report "no model").
C20_UploadRoundTrip ==
    [][(loads /\ uploads'[op'.a].off = uploads'[op'.a].sz) =>
          /\ binBufs' = <<streamBytes(op'.a, 0, uploads'[op'.a].sz)>>
          /\ lastError' \in {"", "load failed"}]_vars

====
